---- MODULE Spec2Model ----
(***************************************************************************)
(* CiteWise: the two Milvus collections (general, definitions), the        *)
(* ingestion pipeline (load -> chunk -> embed -> upsert), the diff-based   *)
(* folder sync and the hybrid retrieval path.                              *)
(*                                                                         *)
(* The vector store, the embedding backend, the definition-extraction LLM  *)
(* and the reranker are external: every call into them is a choice among   *)
(* the outcomes the call can have (success, or an exception).              *)
(***************************************************************************)
EXTENDS Integers, Sequences, FiniteSets, TLC

VARIABLES
    disk,            \* names of the supported files under DATA_PATH
    milvus_client,   \* _milvus_client is not None
    has_collection,  \* [collection -> BOOLEAN]
    rows,            \* [collection -> set of stored rows]
    faults,          \* number of injected external failures so far
    sync,            \* the running / last sync_folder call
    hist,            \* the last direct index_file call
    rq,              \* the last retrieve call
    conc,            \* the threads running a store operation side by side
    status,          \* the last get_index_status call
    api,             \* the background task of the last POST /sync
    scorer           \* the last _BM25Scorer built and its scores

vars == <<disk, milvus_client, has_collection, rows, faults, sync, hist, rq, conc, status, api, scorer>>

-----------------------------------------------------------------------------
(* Bounds *)

\* external failures (exceptions of the store, the embedder, the loader)
\* injected in one behaviour
MaxFaults == 1

-----------------------------------------------------------------------------
(* Configuration *)

COLLECTION_NAME == "legal_docs"
DEFS_COLLECTION_NAME == "legal_docs_defs"
Collections == {COLLECTION_NAME, DEFS_COLLECTION_NAME}

\* the files that may appear under DATA_PATH, in sorted() order
NameOrder == <<"a.pdf", "b.pdf", "c.docx", "q\".pdf", "q\\\".pdf", "q\\\\\".pdf">>
Files == {"a.pdf", "b.pdf", "c.docx"}

\* file names holding a double quote and backslashes:  q".pdf  q\".pdf  q\\".pdf
OddFiles == {"q\".pdf", "q\\\".pdf", "q\\\\\".pdf"}

\* the characters of a file name
NameChars(name) ==
    CASE name = "a.pdf" -> <<"a", ".", "p", "d", "f">>
      [] name = "b.pdf" -> <<"b", ".", "p", "d", "f">>
      [] name = "c.docx" -> <<"c", ".", "d", "o", "c", "x">>
      [] name = "q\".pdf" -> <<"q", "\"", ".", "p", "d", "f">>
      [] name = "q\\\".pdf" -> <<"q", "\\", "\"", ".", "p", "d", "f">>
      [] name = "q\\\\\".pdf" -> <<"q", "\\", "\\", "\"", ".", "p", "d", "f">>
      [] OTHER -> << >>

NoTerm == "<none>"

\* load_document + _LEGAL_SPLITTER.split_text: the non-blank raw chunks of a
\* file, each with its page and its index within the page
RawChunks(name) ==
    CASE name = "a.pdf" ->
            << [page |-> 1, idx |-> 0, text |-> "contract renewal clause"],
               [page |-> 1, idx |-> 1,
                text |-> "'Tenant' means the lessee and 'Rent' shall mean the fee"] >>
      [] name = "b.pdf" ->
            << [page |-> 2, idx |-> 0, text |-> "termination notice period"],
               [page |-> 3, idx |-> 0, text |-> "payment schedule annex"] >>
      [] name = "c.docx" ->
            << [page |-> 1, idx |-> 0,
                text |-> "'Landlord' means the lessor and 'Term' shall mean the period"] >>
      [] name \in OddFiles ->
            << [page |-> 1, idx |-> 0, text |-> "payment schedule annex"] >>
      [] OTHER -> << >>

\* hashlib.md5(text.encode("utf-8")).hexdigest()[:8]
Md5Prefix(text) ==
    CASE text = "contract renewal clause" -> "1730b177"
      [] text = "termination notice period" -> "1784022c"
      [] text = "payment schedule annex" -> "b5653acc"
      [] text = "'Tenant' means the lessee and 'Rent' shall mean the fee" -> "37bb791d"
      [] text = "Tenant: the lessee" -> "22be71ab"
      [] text = "'Landlord' means the lessor and 'Term' shall mean the period" -> "5a8fd827"
      [] text = "Landlord: the lessor" -> "81afcb48"
      [] OTHER -> "00000000"

\* number of definition_signals found in the text
DefinitionSignals(text) ==
    CASE text = "'Tenant' means the lessee and 'Rent' shall mean the fee" -> 2
      [] text = "'Landlord' means the lessor and 'Term' shall mean the period" -> 2
      [] OTHER -> 0

\* none of the model's texts holds a definitions header line, so the
\* heuristic is decided by the signal count
_heuristic_is_definitions_chunk(text) == DefinitionSignals(text) >= 2

\* what _extract_definitions_via_llm may return for a text: the empty list
\* (import error, invalid JSON, LLM error, nothing found) or a list of items;
\* the LLM need not answer twice alike
LLMOutputs(text) ==
    CASE text = "'Tenant' means the lessee and 'Rent' shall mean the fee" ->
            { << >>,
              << [term |-> "Tenant", definition |-> "the lessee"] >> }
      [] text = "'Landlord' means the lessor and 'Term' shall mean the period" ->
            { << >>,
              << [term |-> "Landlord", definition |-> "the lessor"] >>,
              << [term |-> "", definition |-> "the lessor"] >> }
      [] OTHER -> { << >> }

-----------------------------------------------------------------------------
(* Chunking *)

_generate_chunk_id(source, page, chunk_index, text) ==
    <<source, page, chunk_index, Md5Prefix(text)>>

Document(text, source, page, chunk_id, is_def, term) ==
    [page_content |-> text, source |-> source, page |-> page,
     chunk_id |-> chunk_id, is_definition |-> is_def, term |-> term]

\* the definition Documents made from one extracted list (items without a
\* term or a definition are skipped)
RECURSIVE DefinitionDocs(_, _, _, _)
DefinitionDocs(extracted, source, page, idx) ==
    IF extracted = << >> THEN << >>
    ELSE LET def_item == Head(extracted)
             def_text == def_item.term \o ": " \o def_item.definition
             rest == DefinitionDocs(Tail(extracted), source, page, idx)
         IN  IF def_item.term = "" \/ def_item.definition = ""
             THEN rest
             ELSE << Document(def_text, source, page,
                              _generate_chunk_id(source, page, idx, def_text),
                              TRUE, def_item.term) >> \o rest

\* chunk_documents over the raw chunks of one file; llm[text] is what the
\* extractor returns for a chunk the heuristic flags
RECURSIVE chunk_documents(_, _, _)
chunk_documents(source, raw, llm) ==
    IF raw = << >> THEN [general |-> << >>, definitions |-> << >>]
    ELSE LET c == Head(raw)
             rest == chunk_documents(source, Tail(raw), llm)
             is_def == _heuristic_is_definitions_chunk(c.text)
             chunk_doc == Document(c.text, source, c.page,
                                   _generate_chunk_id(source, c.page, c.idx, c.text),
                                   is_def, NoTerm)
         IN  IF is_def
             THEN IF llm[c.text] # << >>
                  THEN [general |-> rest.general,
                        definitions |->
                            DefinitionDocs(llm[c.text], source, c.page, c.idx)
                                \o rest.definitions]
                  ELSE [general |-> rest.general,
                        definitions |-> <<chunk_doc>> \o rest.definitions]
             ELSE [general |-> <<chunk_doc>> \o rest.general,
                   definitions |-> rest.definitions]

DefTexts(name) ==
    { RawChunks(name)[i].text : i \in
        { j \in 1..Len(RawChunks(name)) :
            _heuristic_is_definitions_chunk(RawChunks(name)[j].text) } }

\* the answers the LLM may give for the flagged chunks of one file
LLMChoices(name) ==
    { f \in [DefTexts(name) -> UNION { LLMOutputs(t) : t \in DefTexts(name) }] :
        \A t \in DefTexts(name) : f[t] \in LLMOutputs(t) }

-----------------------------------------------------------------------------
(* The store *)

Store == [open |-> milvus_client, has |-> has_collection, rows |-> rows]

SeqToSet(s) == { s[i] : i \in 1..Len(s) }

\* a row that loses the flag of its chunk
RowOfUnflagged(chunk) ==
    [id |-> chunk.chunk_id, text |-> chunk.page_content,
     source |-> chunk.source, page |-> chunk.page,
     is_definition |-> FALSE, chunk_id |-> chunk.chunk_id]

\* the row _index_chunks builds from a chunk (the vector is left out; the
\* metadata key "term" is not copied)
RowOf(chunk) ==
    [id |-> chunk.chunk_id, text |-> chunk.page_content,
     source |-> chunk.source, page |-> chunk.page,
     is_definition |-> chunk.is_definition, chunk_id |-> chunk.chunk_id]

Ids(rs) == { r.id : r \in rs }

\* client.upsert: rows with the same primary key are overwritten
Upsert(existing, new) ==
    { r \in existing : r.id \notin Ids(new) } \cup new

IndexOutcomes == {"ok", "open_fail", "ensure_fail", "embed_fail", "upsert_fail"}

\* the outcome `out` can happen for this call in this store state
IndexFeasible(chunks, st, out, part) ==
    /\ chunks = << >> => out = "ok"
    /\ out = "open_fail" => ~st.open
    /\ part \subseteq Ids({ RowOf(c) : c \in SeqToSet(chunks) })
    /\ out # "upsert_fail" => part = {}
    \* a failed upsert has not written the whole batch
    /\ out = "upsert_fail" => part # Ids({ RowOf(c) : c \in SeqToSet(chunks) })

\* _index_chunks(chunks, collection_name): the store afterwards, the count
\* returned and whether an exception left the function
_index_chunks(chunks, col, st, out, part) ==
    IF chunks = << >>
    THEN [st |-> st, ret |-> 0, raised |-> FALSE]
    ELSE IF out = "open_fail"
    THEN [st |-> st, ret |-> 0, raised |-> TRUE]
    ELSE IF out = "ensure_fail"
    THEN [st |-> [st EXCEPT !.open = TRUE], ret |-> 0, raised |-> TRUE]
    ELSE LET st1 == [st EXCEPT !.open = TRUE, !.has[col] = TRUE]
             batch == { RowOf(c) : c \in SeqToSet(chunks) }
         IN  IF out = "embed_fail"
             THEN [st |-> st1, ret |-> 0, raised |-> FALSE]
             ELSE IF out = "upsert_fail"
             THEN [st |-> [st1 EXCEPT !.rows[col] =
                              Upsert(@, { r \in batch : r.id \in part })],
                   ret |-> 0, raised |-> FALSE]
             ELSE [st |-> [st1 EXCEPT !.rows[col] = Upsert(@, batch)],
                   ret |-> Len(chunks), raised |-> FALSE]

\* index_file without the try/except of lines 227-240: an exception of
\* _index_chunks leaves the function
index_file_propagating(name, on_disk, st, env) ==
    LET docs == IF on_disk /\ env.load = "ok" THEN RawChunks(name) ELSE << >>
        chunks == chunk_documents(name, docs, env.llm)
        g == _index_chunks(chunks.general, COLLECTION_NAME, st, env.g, env.gpart)
        d == _index_chunks(chunks.definitions, DEFS_COLLECTION_NAME, g.st, env.d, env.dpart)
    IN  IF docs = << >>
        THEN [st |-> st, raised |-> FALSE,
              summary |-> [source |-> name, general_chunks |-> 0,
                           definition_chunks |-> 0, status |-> "empty"]]
        ELSE IF g.raised \/ d.raised
        THEN [st |-> IF g.raised THEN g.st ELSE d.st, raised |-> TRUE,
              summary |-> [source |-> name, general_chunks |-> 0,
                           definition_chunks |-> 0, status |-> "error"]]
        ELSE [st |-> d.st, raised |-> FALSE,
              summary |-> [source |-> name, general_chunks |-> g.ret,
                           definition_chunks |-> d.ret, status |-> "ok"]]

\* index_file(file_path): load -> chunk -> embed -> upsert into both
\* collections. on_disk: the file can be read.
index_file(name, on_disk, st, env) ==
    LET docs == IF on_disk /\ env.load = "ok" THEN RawChunks(name) ELSE << >>
        chunks == chunk_documents(name, docs, env.llm)
        g == _index_chunks(chunks.general, COLLECTION_NAME, st, env.g, env.gpart)
        d == _index_chunks(chunks.definitions, DEFS_COLLECTION_NAME, g.st, env.d, env.dpart)
    IN  IF docs = << >>
        THEN [st |-> st, raised |-> FALSE,
              summary |-> [source |-> name, general_chunks |-> 0,
                           definition_chunks |-> 0, status |-> "empty"]]
        ELSE IF g.raised
        THEN [st |-> g.st, raised |-> FALSE,
              summary |-> [source |-> name, general_chunks |-> 0,
                           definition_chunks |-> 0, status |-> "error"]]
        ELSE IF d.raised
        THEN [st |-> d.st, raised |-> FALSE,
              summary |-> [source |-> name, general_chunks |-> g.ret,
                           definition_chunks |-> 0, status |-> "error"]]
        ELSE [st |-> d.st, raised |-> FALSE,
              summary |-> [source |-> name, general_chunks |-> g.ret,
                           definition_chunks |-> d.ret, status |-> "ok"]]

\* env is a combination of outcomes this call can have in this state, each
\* decided once: a step that is not reached has the outcome "ok"
IndexEnvFeasible(name, on_disk, st, env) ==
    LET docs == IF on_disk /\ env.load = "ok" THEN RawChunks(name) ELSE << >>
        chunks == chunk_documents(name, docs, env.llm)
        g == _index_chunks(chunks.general, COLLECTION_NAME, st, env.g, env.gpart)
    IN  /\ ~on_disk => env.load = "ok"
        /\ IndexFeasible(chunks.general, st, env.g, env.gpart)
        /\ IF g.raised
           THEN env.d = "ok" /\ env.dpart = {}
           ELSE IndexFeasible(chunks.definitions, g.st, env.d, env.dpart)

\* the external failures in env
IndexFaults(env) ==
    (IF env.load = "fail" THEN 1 ELSE 0) + (IF env.g # "ok" THEN 1 ELSE 0)
        + (IF env.d # "ok" THEN 1 ELSE 0)

\* the outcomes one _index_chunks call on these chunks can have: success, an
\* exception before the write, or a failed write that left part of the batch
IndexCallOutcomes(chunks) ==
    { [out |-> o, part |-> {}] :
        o \in {"ok", "open_fail", "ensure_fail", "embed_fail"} }
    \cup { [out |-> "upsert_fail", part |-> p] :
             p \in (SUBSET Ids({ RowOf(c) : c \in SeqToSet(chunks) }))
                     \ { Ids({ RowOf(c) : c \in SeqToSet(chunks) }) } }

\* the external outcomes of one index_file call
IndexEnvs(name) ==
    UNION { UNION {
        { [load |-> l, llm |-> f, g |-> go.out, gpart |-> go.part,
           d |-> do.out, dpart |-> do.part] :
            go \in IndexCallOutcomes(chunk_documents(name, RawChunks(name), f).general),
            do \in IndexCallOutcomes(chunk_documents(name, RawChunks(name), f).definitions) }
        : f \in LLMChoices(name) } : l \in {"ok", "fail"} }

IndexEnvsOf == [name \in Files \cup OddFiles |-> IndexEnvs(name)]

-----------------------------------------------------------------------------
(* Deletion and the source tracker *)

\* source_filename.replace('"', '\\"'), line 256: a backslash is put before
\* every double quote; a backslash of the name is copied as it is
RECURSIVE Escape(_)
Escape(chars) ==
    IF chars = << >> THEN << >>
    ELSE IF Head(chars) = "\"" THEN <<"\\", "\"">> \o Escape(Tail(chars))
    ELSE <<Head(chars)>> \o Escape(Tail(chars))

\* the store reading a string literal of a filter expression from the
\* character after its opening quote: \" and \\ stand for " and \, an
\* unescaped " closes the literal and must end the expression
RECURSIVE ParseLiteral(_, _)
ParseLiteral(chars, value) ==
    IF chars = << >> THEN [ok |-> FALSE, value |-> value]
    ELSE IF Head(chars) = "\""
    THEN [ok |-> Tail(chars) = << >>, value |-> value]
    ELSE IF Head(chars) = "\\"
    THEN IF Len(chars) >= 2 /\ chars[2] \in {"\"", "\\"}
         THEN ParseLiteral(Tail(Tail(chars)), Append(value, chars[2]))
         ELSE [ok |-> FALSE, value |-> value]
    ELSE ParseLiteral(Tail(chars), Append(value, Head(chars)))

\* the literal of  expr = f'source == "{safe}"'  (line 257) as the store
\* reads it
FilterLiteral(name) == ParseLiteral(Escape(NameChars(name)) \o <<"\"">>, << >>)

\* the rows the filter  source == "<safe>"  selects
FilterMatches(name, row) ==
    FilterLiteral(name).ok /\ FilterLiteral(name).value = NameChars(row.source)

\* one pass of the loop of delete_file_vectors over a collection: a failing
\* has_collection / delete (a filter the store cannot read included) is
\* logged and the loop goes on
DeleteIn(col, name, st, out) ==
    IF out = "fail" \/ ~st.has[col] \/ ~FilterLiteral(name).ok
    THEN st
    ELSE [st EXCEPT !.rows[col] = { r \in @ : ~FilterMatches(name, r) }]

\* delete_file_vectors(source_filename); gout, dout: the outcome of the
\* store calls on the general and on the definitions collection
delete_file_vectors(name, st, open_out, gout, dout) ==
    IF ~st.open /\ open_out = "open_fail"
    THEN [st |-> st, raised |-> TRUE]
    ELSE [st |-> DeleteIn(DEFS_COLLECTION_NAME, name,
                          DeleteIn(COLLECTION_NAME, name,
                                   [st EXCEPT !.open = TRUE], gout), dout),
          raised |-> FALSE]

\* _get_indexed_sources(): the sources of the general collection
_get_indexed_sources(st, out) ==
    IF ~st.open /\ out = "open_fail"
    THEN [st |-> st, raised |-> TRUE, sources |-> {}]
    ELSE IF out = "query_fail" \/ ~st.has[COLLECTION_NAME]
    THEN [st |-> [st EXCEPT !.open = TRUE], raised |-> FALSE, sources |-> {}]
    ELSE [st |-> [st EXCEPT !.open = TRUE], raised |-> FALSE,
          sources |-> { r.source : r \in st.rows[COLLECTION_NAME] }]

\* a sort that loses the name that sorts first of all
SortedSkipping(names) == SelectSeq(Tail(NameOrder), LAMBDA n : n \in names)

\* sorted(names)
Sorted(names) == SelectSeq(NameOrder, LAMBDA n : n \in names)

\* get_index_status with the bootstrap of the collections in front of the
\* reads
get_index_status_bootstrap(st, env) ==
    [st |-> [st EXCEPT !.open = TRUE, !.has = [c \in Collections |-> TRUE]],
     raised |-> FALSE,
     status |-> [general_count |-> Cardinality(st.rows[COLLECTION_NAME]),
                 definition_count |-> Cardinality(st.rows[DEFS_COLLECTION_NAME]),
                 sources |-> Sorted({ r.source : r \in st.rows[COLLECTION_NAME] })]]

StatusOutcomes == {"ok", "open_fail", "has_fail", "stats_fail", "query_fail"}

\* the outcomes the store calls of one get_index_status call can have
StatusEnvs ==
    { env \in [g : StatusOutcomes, d : StatusOutcomes \ {"open_fail", "query_fail"}] :
        env.g \in {"open_fail", "has_fail", "stats_fail"} => env.d = "ok" }

StatusFaults(env) ==
    (IF env.g = "ok" THEN 0 ELSE 1) + (IF env.d = "ok" THEN 0 ELSE 1)

\* get_index_status(): the whole body is inside try/except, and the status
\* filled in so far is returned
get_index_status(st, env) ==
    LET zero == [general_count |-> 0, definition_count |-> 0, sources |-> << >>]
        st1 == [st EXCEPT !.open = TRUE]
        has_g == st.has[COLLECTION_NAME]
        has_d == st.has[DEFS_COLLECTION_NAME]
        after_g ==
            IF ~has_g THEN zero
            ELSE [zero EXCEPT
                    !.general_count = Cardinality(st.rows[COLLECTION_NAME]),
                    !.sources = IF env.g = "query_fail" THEN << >>
                                ELSE Sorted({ r.source : r \in st.rows[COLLECTION_NAME] })]
    IN  IF env.g = "open_fail"
        THEN [st |-> st, raised |-> FALSE, status |-> zero]
        ELSE IF env.g = "has_fail" \/ (has_g /\ env.g = "stats_fail")
        THEN [st |-> st1, raised |-> FALSE, status |-> zero]
        ELSE IF env.d = "has_fail" \/ (has_d /\ env.d = "stats_fail") \/ ~has_d
        THEN [st |-> st1, raised |-> FALSE, status |-> after_g]
        ELSE [st |-> st1, raised |-> FALSE,
              status |-> [after_g EXCEPT
                            !.definition_count = Cardinality(st.rows[DEFS_COLLECTION_NAME])]]

-----------------------------------------------------------------------------
(* Retrieval: configuration *)

\* The top-k settings are read from the environment (hybrid_search.py lines
\* 37-40; defaults 10, 5 and 3). The model runs a configuration small enough
\* for the truncations to happen with three general rows.
SEMANTIC_TOP_K == 3
RERANK_TOP_K == 2
DEFS_TOP_K == 2

Queries == {"termination notice", "Renewal of the contract"}

\* the texts the scorer is tried on: one to three words out of notice,
\* period and annex
ScoringTexts ==
    {"notice", "period", "annex", "notice notice", "notice period",
     "notice annex", "period notice", "period period", "period annex",
     "annex notice", "annex period", "annex annex", "notice notice notice",
     "notice notice period", "notice notice annex", "notice period notice",
     "notice period period", "notice period annex", "notice annex notice",
     "notice annex period", "notice annex annex", "period notice notice",
     "period notice period", "period notice annex", "period period notice",
     "period period period", "period period annex", "period annex notice",
     "period annex period", "period annex annex", "annex notice notice",
     "annex notice period", "annex notice annex", "annex period notice",
     "annex period period", "annex period annex", "annex annex notice",
     "annex annex period", "annex annex annex"}

\* the queries the scorer is tried on
ScoringQueries == {"notice", "notice period"}

\* _tokenise(text): the lower-cased word tokens of a text
_tokenise(text) ==
    CASE text = "contract renewal clause" -> <<"contract", "renewal", "clause">>
      [] text = "termination notice period" -> <<"termination", "notice", "period">>
      [] text = "payment schedule annex" -> <<"payment", "schedule", "annex">>
      [] text = "termination notice" -> <<"termination", "notice">>
      [] text = "Renewal of the contract" -> <<"renewal", "of", "the", "contract">>
      [] text = "notice" -> <<"notice">>
      [] text = "period" -> <<"period">>
      [] text = "annex" -> <<"annex">>
      [] text = "notice notice" -> <<"notice", "notice">>
      [] text = "notice period" -> <<"notice", "period">>
      [] text = "notice annex" -> <<"notice", "annex">>
      [] text = "period notice" -> <<"period", "notice">>
      [] text = "period period" -> <<"period", "period">>
      [] text = "period annex" -> <<"period", "annex">>
      [] text = "annex notice" -> <<"annex", "notice">>
      [] text = "annex period" -> <<"annex", "period">>
      [] text = "annex annex" -> <<"annex", "annex">>
      [] text = "notice notice notice" -> <<"notice", "notice", "notice">>
      [] text = "notice notice period" -> <<"notice", "notice", "period">>
      [] text = "notice notice annex" -> <<"notice", "notice", "annex">>
      [] text = "notice period notice" -> <<"notice", "period", "notice">>
      [] text = "notice period period" -> <<"notice", "period", "period">>
      [] text = "notice period annex" -> <<"notice", "period", "annex">>
      [] text = "notice annex notice" -> <<"notice", "annex", "notice">>
      [] text = "notice annex period" -> <<"notice", "annex", "period">>
      [] text = "notice annex annex" -> <<"notice", "annex", "annex">>
      [] text = "period notice notice" -> <<"period", "notice", "notice">>
      [] text = "period notice period" -> <<"period", "notice", "period">>
      [] text = "period notice annex" -> <<"period", "notice", "annex">>
      [] text = "period period notice" -> <<"period", "period", "notice">>
      [] text = "period period period" -> <<"period", "period", "period">>
      [] text = "period period annex" -> <<"period", "period", "annex">>
      [] text = "period annex notice" -> <<"period", "annex", "notice">>
      [] text = "period annex period" -> <<"period", "annex", "period">>
      [] text = "period annex annex" -> <<"period", "annex", "annex">>
      [] text = "annex notice notice" -> <<"annex", "notice", "notice">>
      [] text = "annex notice period" -> <<"annex", "notice", "period">>
      [] text = "annex notice annex" -> <<"annex", "notice", "annex">>
      [] text = "annex period notice" -> <<"annex", "period", "notice">>
      [] text = "annex period period" -> <<"annex", "period", "period">>
      [] text = "annex period annex" -> <<"annex", "period", "annex">>
      [] text = "annex annex notice" -> <<"annex", "annex", "notice">>
      [] text = "annex annex period" -> <<"annex", "annex", "period">>
      [] text = "annex annex annex" -> <<"annex", "annex", "annex">>
      [] OTHER -> << >>

-----------------------------------------------------------------------------
(* Retrieval: BM25 over the semantic hits, in fixed point *)

\* scores are integers in units of 10^-6
\* 10^6 * math.log((n - df + 0.5) / (df + 0.5) + 1), rounded, for n <= 4
IdfMicro(n, df) ==
    CASE n = 1 /\ df = 1 -> 287682
      [] n = 2 /\ df = 1 -> 693147
      [] n = 2 /\ df = 2 -> 182322
      [] n = 3 /\ df = 1 -> 980829
      [] n = 3 /\ df = 2 -> 470004
      [] n = 3 /\ df = 3 -> 133531
      [] n = 4 /\ df = 1 -> 1203973
      [] n = 4 /\ df = 2 -> 693147
      [] n = 4 /\ df = 3 -> 356675
      [] n = 4 /\ df = 4 -> 105361
      [] OTHER -> 0

RECURSIVE SumSeq(_)
SumSeq(s) == IF s = << >> THEN 0 ELSE Head(s) + SumSeq(Tail(s))

\* Counter(tokens)[term]
TermFrequency(tokens, term) == Cardinality({ k \in 1..Len(tokens) : tokens[k] = term })

\* self._df[term]: the number of corpus documents that hold the term
DocumentFrequency(corpus, term) ==
    Cardinality({ k \in 1..Len(corpus) : TermFrequency(_tokenise(corpus[k]), term) > 0 })

\* a term share that counts a term once however often the document holds it
BM25TermBinary(n, total, dl, tf, df) ==
    IF df = 0 \/ tf = 0 THEN 0
    ELSE (IdfMicro(n, df) * 20 * total) \div (8 * total + 3 * total + 9 * dl * n)

\* one term's share of _BM25Scorer.score, with K1 = 1.5 and B = 0.75:
\*   idf * tf * (K1 + 1) / (tf + K1 * (1 - B + B * dl / avgdl))
\* where avgdl = total / n; numerator and denominator are multiplied by 8 * total
BM25Term(n, total, dl, tf, df) ==
    IF df = 0 THEN 0
    ELSE (IdfMicro(n, df) * 20 * tf * total) \div (8 * tf * total + 3 * total + 9 * dl * n)

\* _BM25Scorer(corpus).score(query, doc_index), doc_index from 1
BM25Score(corpus, query, doc_index) ==
    LET n == Len(corpus)
        total == SumSeq([k \in 1..n |-> Len(_tokenise(corpus[k]))])
        tokens == _tokenise(corpus[doc_index])
        query_terms == _tokenise(query)
    IN  SumSeq([t \in 1..Len(query_terms) |->
                  BM25Term(n, total, Len(tokens),
                           TermFrequency(tokens, query_terms[t]),
                           DocumentFrequency(corpus, query_terms[t]))])

\* a normalisation that divides by the best score whatever it is: the
\* division by zero raises
NormKeywordUnguarded(score, max_kw) ==
    [num |-> score, den |-> max_kw, raised |-> max_kw = 0]

\* norm_kw, line 204:  s / max_kw if max_kw > 0 else 0.0,  as a fraction
NormKeyword(score, max_kw) ==
    IF max_kw > 0 THEN [num |-> score, den |-> max_kw, raised |-> FALSE]
    ELSE [num |-> 0, den |-> 1, raised |-> FALSE]

MaxOf(s) == CHOOSE m \in SeqToSet(s) : \A k \in 1..Len(s) : s[k] <= m

\* a combined score with the two weights exchanged (0.4 semantic, 0.6 keyword)
CombinedScoreSwapped(i, n, kw, max_kw) ==
    IF max_kw > 0 THEN 4 * (n - i) * max_kw + 6 * n * kw ELSE 4 * (n - i)

\* a combined score made of the semantic rank alone (no keyword part)
CombinedScoreSemanticOnly(i, n, kw, max_kw) == 6 * (n - i)

\* Stage C for the hit at 0-indexed rank i of n, keyword score kw and best
\* keyword score max_kw:  0.6 * (n - i) / n + 0.4 * (kw / max_kw if max_kw > 0
\* else 0.0), as the numerator over the denominator 10 * n * max_kw (10 * n
\* when max_kw = 0) that all hits of one call share
CombinedScore(i, n, kw, max_kw) ==
    IF max_kw > 0 THEN 6 * (n - i) * max_kw + 4 * n * kw ELSE 6 * (n - i)

\* a sort that puts later elements first among equals (sorting ascending and
\* reversing the result)
SortPrecedesUnstable(scores, i, j) ==
    scores[i] > scores[j] \/ (scores[i] = scores[j] /\ i > j)

\* combined.sort(key=lambda x: x[0], reverse=True): element i comes before
\* element j (list.sort keeps the order of equal keys, also with reverse=True)
SortPrecedes(scores, i, j) ==
    scores[i] > scores[j] \/ (scores[i] = scores[j] /\ i < j)

\* a sequence given as a function, as a tuple
AsSeq(f) == SubSeq(f, 1, Len(f))

\* the scores of every document of a corpus for a query
ScoreAll(corpus, query) ==
    AsSeq([k \in 1..Len(corpus) |-> BM25Score(corpus, query, k)])

\* Op applied to the value of v (a local variable assigned once)
ByValue(v, Op(_)) == CHOOSE r \in { Op(a) : a \in {v} } : TRUE

\* the positions 1..Len(scores) in sorted order
SortedOrder(scores) ==
    ByValue(scores, LAMBDA s :
        AsSeq([k \in 1..Len(s) |->
            CHOOSE i \in 1..Len(s) :
                Cardinality({ j \in 1..Len(s) : SortPrecedes(s, j, i) }) = k - 1]))

\* a slice that does not cut
TakeAll(s, k) == s

\* s[:k]
Take(s, k) == SubSeq(s, 1, IF Len(s) < k THEN Len(s) ELSE k)

\* a deduplication that keeps the last document of every chunk_id
RECURSIVE DeduplicateKeepLast(_, _)
DeduplicateKeepLast(docs, seen_ids) ==
    IF docs = << >> THEN << >>
    ELSE IF \E k \in 2..Len(docs) : docs[k].chunk_id = Head(docs).chunk_id
    THEN DeduplicateKeepLast(Tail(docs), seen_ids)
    ELSE <<Head(docs)>> \o DeduplicateKeepLast(Tail(docs), seen_ids)

\* Step 4: keep the first document of every chunk_id
RECURSIVE Deduplicate(_, _)
Deduplicate(docs, seen_ids) ==
    IF docs = << >> THEN << >>
    ELSE IF Head(docs).chunk_id \in seen_ids
    THEN Deduplicate(Tail(docs), seen_ids)
    ELSE <<Head(docs)>> \o Deduplicate(Tail(docs), seen_ids \cup {Head(docs).chunk_id})

\* every sequence of at most k elements of S: what client.search may return
\* with limit=k (the store is not relied on to return a row only once)
HitSeqs(S, k) == UNION { [1..n -> S] : n \in 0..k }

\* the scores FlashRank may give the passages 1..SEMANTIC_TOP_K (all different)
RerankScores ==
    { g \in [1..SEMANTIC_TOP_K -> 1..SEMANTIC_TOP_K] :
        \A a, b \in 1..SEMANTIC_TOP_K : a # b => g[a] # g[b] }

-----------------------------------------------------------------------------
(* Retrieval: search, rerank, hybrid_search, retrieve *)

SearchOutcomes == {"ok", "open_fail", "ensure_fail", "embed_fail", "search_fail"}

\* the Document search_collection builds from a hit (output_fields holds no "term")
HitDocument(row) ==
    Document(row.text, row.source, row.page, row.chunk_id, row.is_definition, NoTerm)

\* search_collection(query, collection_name, top_k); hits: the rows client.search
\* returns, best first
search_collection(col, top_k, st, out, hits) ==
    IF out = "open_fail"
    THEN [st |-> st, raised |-> TRUE, docs |-> << >>]
    ELSE IF out = "ensure_fail"
    THEN [st |-> [st EXCEPT !.open = TRUE], raised |-> TRUE, docs |-> << >>]
    ELSE LET st1 == [st EXCEPT !.open = TRUE, !.has[col] = TRUE]
         IN  IF out \in {"embed_fail", "search_fail"}
             THEN [st |-> st1, raised |-> FALSE, docs |-> << >>]
             ELSE [st |-> st1, raised |-> FALSE,
                   docs |-> AsSeq([k \in 1..Len(hits) |-> HitDocument(hits[k])])]

\* the outcomes one search_collection call can have in this store state
SearchCallOutcomes(col, top_k, st) ==
    { [out |-> o, hits |-> << >>] :
        o \in { x \in SearchOutcomes \ {"ok"} : x = "open_fail" => ~st.open } }
    \cup { [out |-> "ok", hits |-> AsSeq(h)] : h \in HitSeqs(st.rows[col], top_k) }

\* a reranker that drops the candidates when FlashRank fails
_flashrank_rerank_empty(candidates, top_k, out, ranked) ==
    IF out \in {"not_installed", "error"}
    THEN << >>
    ELSE Take(ranked, top_k)

\* _flashrank_rerank(query, candidates, top_k); ranked: the candidates in the
\* order of the scores FlashRank gives them
_flashrank_rerank(candidates, top_k, out, ranked) ==
    IF out \in {"not_installed", "error"}
    THEN Take(candidates, top_k)
    ELSE Take(ranked, top_k)

\* hybrid_search with the definitions treated like the general hits: dropped
\* when the general search raised, and deduplicated
hybrid_search_defs_coupled(query, st, env) ==
    IF env.import = "fail"
    THEN [st |-> st, raised |-> TRUE, general |-> << >>, definitions |-> << >>,
          keyword_scores |-> << >>, max_kw |-> 0, combined |-> << >>,
          order |-> << >>, deduped |-> << >>]
    ELSE
    ByValue(search_collection(COLLECTION_NAME, SEMANTIC_TOP_K, st, env.g, env.ghits),
            LAMBDA g :
    ByValue(search_collection(DEFS_COLLECTION_NAME, DEFS_TOP_K, g.st, env.d, env.dhits),
            LAMBDA d :
    ByValue(IF g.raised THEN << >> ELSE g.docs,
            LAMBDA semantic_hits :
    ByValue(AsSeq([k \in 1..Len(semantic_hits) |-> semantic_hits[k].page_content]),
            LAMBDA corpus :
    ByValue(AsSeq([k \in 1..Len(corpus) |-> BM25Score(corpus, query, k)]),
            LAMBDA keyword_scores :
    ByValue(IF keyword_scores # << >> THEN MaxOf(keyword_scores) ELSE 0,
            LAMBDA max_kw :
    ByValue(AsSeq([k \in 1..Len(corpus) |->
                     CombinedScore(k - 1, Len(corpus), keyword_scores[k], max_kw)]),
            LAMBDA combined :
    ByValue(SortedOrder(combined),
            LAMBDA order :
    ByValue(Deduplicate(AsSeq([k \in 1..Len(order) |-> semantic_hits[order[k]]]), {}),
            LAMBDA deduped :
    \* sorted(results, key=lambda r: r["score"], reverse=True)
    ByValue(SortedOrder(AsSeq([k \in 1..Len(deduped) |-> env.scores[k]])),
            LAMBDA rerank_order :
        [st |-> d.st, raised |-> FALSE,
         general |-> _flashrank_rerank(
                        deduped, RERANK_TOP_K, env.rerank,
                        AsSeq([k \in 1..Len(deduped) |-> deduped[rerank_order[k]]])),
         definitions |-> IF g.raised \/ d.raised THEN << >>
                         ELSE Deduplicate(d.docs, {}),
         keyword_scores |-> keyword_scores, max_kw |-> max_kw,
         combined |-> combined, order |-> order, deduped |-> deduped]
    ))))))))))

\* hybrid_search(query); every local of the function is computed once, in
\* the order of the code
hybrid_search(query, st, env) ==
    IF env.import = "fail"
    THEN [st |-> st, raised |-> TRUE, general |-> << >>, definitions |-> << >>,
          keyword_scores |-> << >>, max_kw |-> 0, combined |-> << >>,
          order |-> << >>, deduped |-> << >>]
    ELSE
    ByValue(search_collection(COLLECTION_NAME, SEMANTIC_TOP_K, st, env.g, env.ghits),
            LAMBDA g :
    ByValue(search_collection(DEFS_COLLECTION_NAME, DEFS_TOP_K, g.st, env.d, env.dhits),
            LAMBDA d :
    ByValue(IF g.raised THEN << >> ELSE g.docs,
            LAMBDA semantic_hits :
    ByValue(AsSeq([k \in 1..Len(semantic_hits) |-> semantic_hits[k].page_content]),
            LAMBDA corpus :
    ByValue(AsSeq([k \in 1..Len(corpus) |-> BM25Score(corpus, query, k)]),
            LAMBDA keyword_scores :
    ByValue(IF keyword_scores # << >> THEN MaxOf(keyword_scores) ELSE 0,
            LAMBDA max_kw :
    ByValue(AsSeq([k \in 1..Len(corpus) |->
                     CombinedScore(k - 1, Len(corpus), keyword_scores[k], max_kw)]),
            LAMBDA combined :
    ByValue(SortedOrder(combined),
            LAMBDA order :
    ByValue(Deduplicate(AsSeq([k \in 1..Len(order) |-> semantic_hits[order[k]]]), {}),
            LAMBDA deduped :
    \* sorted(results, key=lambda r: r["score"], reverse=True)
    ByValue(SortedOrder(AsSeq([k \in 1..Len(deduped) |-> env.scores[k]])),
            LAMBDA rerank_order :
        [st |-> d.st, raised |-> FALSE,
         general |-> _flashrank_rerank(
                        deduped, RERANK_TOP_K, env.rerank,
                        AsSeq([k \in 1..Len(deduped) |-> deduped[rerank_order[k]]])),
         definitions |-> IF d.raised THEN << >> ELSE d.docs,
         keyword_scores |-> keyword_scores, max_kw |-> max_kw,
         combined |-> combined, order |-> order, deduped |-> deduped]
    ))))))))))

\* _format_context_block: which of the strings is built
_format_context_block(general_docs, definition_docs) ==
    IF general_docs = << >> /\ definition_docs = << >> THEN "no_documents" ELSE "block"

\* retrieve without the try/except of lines 115-119
retrieve_propagating(query, st, env) ==
    ByValue(hybrid_search(query, st, env), LAMBDA h :
        [pc |-> IF h.raised THEN "raised" ELSE "returned",
         context |-> IF h.raised THEN "error"
                     ELSE _format_context_block(h.general, h.definitions),
         general_docs |-> h.general, definition_docs |-> h.definitions, hs |-> h])

\* retrieve(query): the context string, the general and the definition documents
retrieve(query, st, env) ==
    ByValue(hybrid_search(query, st, env), LAMBDA h :
        IF h.raised
        THEN [pc |-> "returned", context |-> "error",
              general_docs |-> << >>, definition_docs |-> << >>, hs |-> h]
        ELSE [pc |-> "returned",
              context |-> _format_context_block(h.general, h.definitions),
              general_docs |-> h.general, definition_docs |-> h.definitions, hs |-> h])

-----------------------------------------------------------------------------
(* State *)

EmptyReport == [added |-> << >>, deleted |-> << >>, errors |-> << >>, total_on_disk |-> 0]

\* no sync_folder call yet
SyncIdle ==
    [pc |-> "idle", disk_names |-> {}, indexed_names |-> {},
     todo_add |-> << >>, todo_del |-> << >>, report |-> EmptyReport,
     stable |-> FALSE, second |-> FALSE, start_sources |-> {},
     attempted |-> {}, failed_ingest |-> {}, failed_delete |-> {}]

\* the last operation was no direct index_file call
NoHist ==
    [calls |-> 0, name |-> "", before |-> [c \in Collections |-> {}],
     general |-> << >>, definitions |-> << >>, g |-> "ok", d |-> "ok",
     raised |-> FALSE,
     summary |-> [source |-> "", general_chunks |-> 0, definition_chunks |-> 0,
                  status |-> "none"],
     first_summary |-> [source |-> "", general_chunks |-> 0,
                        definition_chunks |-> 0, status |-> "none"]]

\* no retrieve call yet
NoQuery == [pc |-> "idle"]

\* APScheduler's job thread running _scheduled_sync, a thread-pool worker
\* running the upload's _index (BackgroundTasks) and the event loop running
\* the async endpoint /query
Threads == {"scheduler", "worker", "loop"}

ThreadIdle == [pc |-> "idle", op |-> "none", col |-> "none", name |-> "none"]

\* no thread is in the store; creates[c]: create_collection calls made for c;
\* ensure_raised: a call of _ensure_collection ended with an exception
NoThreads ==
    [thread |-> [t \in Threads |-> ThreadIdle],
     creates |-> [c \in Collections |-> 0],
     ensure_raised |-> FALSE]

\* no _BM25Scorer built yet
NoScorer == [pc |-> "idle"]

\* no POST /sync yet
NoRequest == [run_sync |-> "none"]

\* no get_index_status call yet
NoStatus == [pc |-> "idle"]

StoreInit ==
    /\ milvus_client = FALSE
    /\ has_collection = [c \in Collections |-> FALSE]
    /\ rows = [c \in Collections |-> {}]

Init ==
    /\ disk = {}
    /\ StoreInit
    /\ faults = 0
    /\ sync = SyncIdle
    /\ hist = NoHist
    /\ rq = NoQuery
    /\ conc = NoThreads
    /\ status = NoStatus
    /\ api = NoRequest
    /\ scorer = NoScorer

SetStore(st) ==
    /\ milvus_client' = st.open
    /\ has_collection' = st.has
    /\ rows' = st.rows

Fault(k) == faults + k <= MaxFaults /\ faults' = faults + k

\* sources with a row in either collection
StoredSources == { r.source : r \in rows[COLLECTION_NAME] \cup rows[DEFS_COLLECTION_NAME] }

-----------------------------------------------------------------------------
(* The file system (uploads write into DATA_PATH; users add and remove files) *)

FsAdd(name) ==
    /\ name \notin disk
    /\ disk' = disk \cup {name}
    /\ sync' = [sync EXCEPT !.stable = FALSE]
    /\ hist' = NoHist
    /\ UNCHANGED <<scorer, api, status, conc, milvus_client, has_collection, rows, faults, rq>>

FsRemove(name) ==
    /\ name \in disk
    /\ disk' = disk \ {name}
    /\ sync' = [sync EXCEPT !.stable = FALSE]
    /\ hist' = NoHist
    /\ UNCHANGED <<scorer, api, status, conc, milvus_client, has_collection, rows, faults, rq>>

-----------------------------------------------------------------------------
(* index_file called directly (the background task of POST /upload) *)

IndexFileCall(name, env) ==
    LET on_disk == name \in disk
        r == index_file(name, on_disk, Store, env)
        docs == IF on_disk /\ env.load = "ok" THEN RawChunks(name) ELSE << >>
        chunks == chunk_documents(name, docs, env.llm)
    IN  /\ Fault(IndexFaults(env))
        /\ IndexEnvFeasible(name, on_disk, Store, env)
        /\ SetStore(r.st)
        /\ hist' = [calls |-> IF hist.calls >= 1 /\ hist.name = name THEN 2 ELSE 1,
                    name |-> name, before |-> rows,
                    general |-> chunks.general, definitions |-> chunks.definitions,
                    g |-> env.g, d |-> env.d, raised |-> r.raised,
                    summary |-> r.summary, first_summary |-> hist.summary]
        /\ sync' = [sync EXCEPT !.stable = FALSE]
        /\ UNCHANGED <<scorer, api, status, conc, disk, rq>>

-----------------------------------------------------------------------------
(* sync_folder, one step per loop iteration *)

NextPc(todo_add, todo_del) ==
    IF todo_add # << >> THEN "add" ELSE IF todo_del # << >> THEN "delete" ELSE "done"

\* lines 381-397: the directory check, the enumeration of the disk and the
\* query of the indexed sources
SyncStart(out) ==
    /\ sync.pc \in {"idle", "done", "raised"}
    /\ out \in {"ok", "open_fail", "query_fail"}
    /\ out = "open_fail" => ~milvus_client
    /\ Fault(IF out = "ok" THEN 0 ELSE 1)
    /\ LET q == _get_indexed_sources(Store, out)
           second == sync.pc = "done" /\ sync.stable
           disk_names == disk
           todo_add == Sorted(disk_names \ q.sources)
           todo_del == Sorted(q.sources \ disk_names)
       IN  IF q.raised
           THEN /\ sync' = [SyncIdle EXCEPT !.pc = "raised", !.stable = TRUE,
                                            !.second = second,
                                            !.disk_names = disk_names,
                                            !.report.total_on_disk = Cardinality(disk_names),
                                            !.start_sources = StoredSources]
                /\ SetStore(q.st)
           ELSE /\ sync' = [SyncIdle EXCEPT !.pc = NextPc(todo_add, todo_del),
                                            !.stable = TRUE, !.second = second,
                                            !.disk_names = disk_names,
                                            !.indexed_names = q.sources,
                                            !.todo_add = todo_add, !.todo_del = todo_del,
                                            !.report.total_on_disk = Cardinality(disk_names),
                                            !.start_sources = StoredSources]
                /\ SetStore(q.st)
    /\ hist' = NoHist
    /\ UNCHANGED <<scorer, api, status, conc, disk, rq>>

\* lines 400-403: one iteration of the "add new files" loop
SyncAdd(env) ==
    /\ sync.pc = "add"
    /\ LET name == Head(sync.todo_add)
           on_disk == name \in disk
           s == index_file(name, on_disk, Store, env)
           failed == ~on_disk \/ IndexFaults(env) > 0
       IN  /\ Fault(IndexFaults(env))
           /\ IndexEnvFeasible(name, on_disk, Store, env)
           /\ SetStore(s.st)
           /\ sync' = IF s.raised
                      THEN [sync EXCEPT !.pc = "raised",
                                        !.attempted = @ \cup {name}]
                      ELSE [sync EXCEPT
                              !.pc = NextPc(Tail(sync.todo_add), sync.todo_del),
                              !.todo_add = Tail(@),
                              !.attempted = @ \cup {name},
                              !.failed_ingest = IF failed THEN @ \cup {name} ELSE @,
                              !.report.added = IF s.summary.status = "ok"
                                               THEN Append(@, name) ELSE @,
                              !.report.errors = IF s.summary.status = "ok"
                                                THEN @ ELSE Append(@, name)]
    /\ hist' = NoHist
    /\ UNCHANGED <<scorer, api, status, conc, disk, rq>>

\* lines 406-413: one iteration of the "remove deleted files" loop
SyncDelete(gout, dout) ==
    /\ sync.pc = "delete"
    /\ LET name == Head(sync.todo_del)
           r == delete_file_vectors(name, Store, "ok", gout, dout)
           nfail == (IF gout = "fail" THEN 1 ELSE 0) + (IF dout = "fail" THEN 1 ELSE 0)
       IN  /\ Fault(nfail)
           /\ SetStore(r.st)
           /\ sync' = [sync EXCEPT
                         !.pc = NextPc(<< >>, Tail(sync.todo_del)),
                         !.todo_del = Tail(@),
                         !.attempted = @ \cup {name},
                         !.failed_delete = IF nfail > 0 THEN @ \cup {name} ELSE @,
                         !.report.deleted = IF r.raised THEN @ ELSE Append(@, name),
                         !.report.errors = IF r.raised THEN Append(@, name) ELSE @]
    /\ hist' = NoHist
    /\ UNCHANGED <<scorer, api, status, conc, disk, rq>>

-----------------------------------------------------------------------------
(* retrieve called by POST /query *)

\* retrieve running to its return from the position pc, with the outcome of
\* every external call it makes (steps that are not reached have no outcome
\* of their own)
RetrieveFrom(pc, query) ==
    /\ rq.pc = pc
    /\ \E imp \in {"ok", "fail"} :
       \E go \in SearchCallOutcomes(COLLECTION_NAME, SEMANTIC_TOP_K, Store) :
       \E do \in SearchCallOutcomes(DEFS_COLLECTION_NAME, DEFS_TOP_K,
                                    [Store EXCEPT !.open = @ \/ go.out # "open_fail"]) :
       \E rr \in {"ok", "not_installed", "error"} :
       \E scores \in RerankScores :
          /\ imp = "fail" => go.out = "search_fail" /\ do.out = "search_fail" /\ rr = "ok"
          /\ rr # "ok" => scores = [k \in 1..SEMANTIC_TOP_K |-> k]
          /\ \E r \in { retrieve(query, Store,
                                 [import |-> imp, g |-> go.out, ghits |-> go.hits,
                                  d |-> do.out, dhits |-> do.hits, rerank |-> rr,
                                  scores |-> scores]) } :
             LET reached(out) == IF imp = "fail" THEN "unreached" ELSE out
             IN  /\ SetStore(r.hs.st)
                 /\ rq' = [pc |-> r.pc, query |-> query, import |-> imp,
                           g |-> reached(go.out), d |-> reached(do.out),
                           rerank |-> reached(rr),
                           semantic_hits |-> go.hits, def_hits |-> do.hits,
                           keyword_scores |-> r.hs.keyword_scores,
                           max_kw |-> r.hs.max_kw,
                           norm_kw |-> AsSeq([k \in 1..Len(r.hs.keyword_scores) |->
                                         NormKeyword(r.hs.keyword_scores[k], r.hs.max_kw)]),
                           combined |-> r.hs.combined, order |-> r.hs.order,
                           deduped |-> r.hs.deduped,
                           hs_raised |-> r.hs.raised,
                           context |-> r.context,
                           general_docs |-> r.general_docs,
                           definition_docs |-> r.definition_docs]
    /\ UNCHANGED <<scorer, api, status, conc, disk, faults, sync, hist>>

\* one retrieve call, with the outcome of every external call it makes
Retrieve(query) == RetrieveFrom("idle", query)

\* retrieve is called and reaches the first external call of the query
\* path: embed_query inside search_collection on the general collection
\* (index.py line 326); the call is made without a timeout
RetrieveCall(query) ==
    /\ rq.pc = "idle"
    /\ rq' = [pc |-> "embed_query", query |-> query]
    /\ UNCHANGED <<scorer, disk, milvus_client, has_collection, rows, faults, sync, hist,
                   conc, status, api>>

\* the embedding backend answers (a vector or an exception) and the code
\* runs on to its next external call: embed_query of the definitions
\* search, then the reranker (hybrid_search.py line 232)
EmbedResponds ==
    /\ rq.pc \in {"embed_query", "embed_query_defs"}
    /\ rq' = [rq EXCEPT !.pc = IF @ = "embed_query" THEN "embed_query_defs"
                                ELSE "rerank"]
    /\ UNCHANGED <<scorer, disk, milvus_client, has_collection, rows, faults, sync, hist,
                   conc, status, api>>

\* the reranker answers (or is not installed) and retrieve returns
RerankResponds == rq.pc = "rerank" /\ RetrieveFrom("rerank", rq.query)

\* the caller has used the result
RetrieveDone ==
    /\ rq.pc # "idle"
    /\ rq' = NoQuery
    /\ UNCHANGED <<scorer, api, status, conc, disk, milvus_client, has_collection, rows, faults, sync, hist>>

\* the rows a successful index_file call stores for a file
StoredRows(name, llm) ==
    [c \in Collections |->
        LET chunks == chunk_documents(name, RawChunks(name), llm)
        IN  { RowOf(x) : x \in SeqToSet(IF c = COLLECTION_NAME THEN chunks.general
                                         ELSE chunks.definitions) }]

GeneralPool == UNION { UNION { StoredRows(name, llm)[COLLECTION_NAME]
                               : llm \in LLMChoices(name) } : name \in Files }

\* the definition rows of a.pdf (extraction failed) and c.docx (extracted)
DefsPool ==
    StoredRows("a.pdf", [t \in DefTexts("a.pdf") |-> << >>])[DEFS_COLLECTION_NAME]
    \cup StoredRows("c.docx", [t \in DefTexts("c.docx") |->
            << [term |-> "Landlord", definition |-> "the lessor"] >>])[DEFS_COLLECTION_NAME]

\* the query path starts from any store an ingestion can have left
InitQuery ==
    /\ disk = {}
    /\ faults = 0
    /\ sync = SyncIdle
    /\ hist = NoHist
    /\ rq = NoQuery
    /\ conc = NoThreads
    /\ status = NoStatus
    /\ api = NoRequest
    /\ scorer = NoScorer
    /\ milvus_client \in BOOLEAN
    /\ \E general \in SUBSET GeneralPool, defs \in SUBSET DefsPool :
          /\ rows = [c \in Collections |->
                        IF c = COLLECTION_NAME THEN general ELSE defs]
          /\ \E has_general \in { general # {}, TRUE }, has_defs \in { defs # {}, TRUE } :
                has_collection = [c \in Collections |->
                                    IF c = COLLECTION_NAME THEN has_general ELSE has_defs]

NextQuery ==
    \/ \E query \in Queries : Retrieve(query)
    \/ RetrieveDone

SpecQuery == InitQuery /\ [][NextQuery]_vars

\* the file system changing under the program
FsNext ==
    \/ \E name \in Files : FsAdd(name)
    \/ \E name \in Files : FsRemove(name)

\* the sync engine (scheduled, POST /sync, POST /sync/blocking, CLI)
Next ==
    \/ FsNext
    \/ \E out \in {"ok", "open_fail", "query_fail"} : SyncStart(out)
    \/ sync.pc = "add" /\ \E env \in IndexEnvsOf[Head(sync.todo_add)] : SyncAdd(env)
    \/ \E gout, dout \in {"ok", "fail"} : SyncDelete(gout, dout)

Spec == Init /\ [][Next]_vars

\* GET /status: one get_index_status call
GetIndexStatus(env) ==
    /\ status.pc = "idle"
    /\ env.g = "open_fail" => ~milvus_client
    /\ env.g \in {"stats_fail", "query_fail"} => has_collection[COLLECTION_NAME]
    /\ env.d = "stats_fail" => has_collection[DEFS_COLLECTION_NAME]
    /\ Fault(StatusFaults(env))
    /\ \E r \in { get_index_status(Store, env) } :
          /\ SetStore(r.st)
          /\ status' = [pc |-> IF r.raised THEN "raised" ELSE "returned",
                        before |-> Store, g |-> env.g, d |-> env.d,
                        report |-> r.status]
    /\ UNCHANGED <<scorer, api, disk, sync, hist, rq, conc>>

\* the caller has read the status
StatusDone ==
    /\ status.pc # "idle"
    /\ status' = NoStatus
    /\ UNCHANGED <<scorer, api, disk, milvus_client, has_collection, rows, faults, sync, hist, rq, conc>>

\* the status endpoint on any store an ingestion can have left
NextStatus ==
    \/ \E env \in StatusEnvs : GetIndexStatus(env)
    \/ StatusDone

SpecStatus == InitQuery /\ [][NextStatus]_vars

\* the names bound in the module namespace of app.py that lead to the
\* ingestion code (the imports of lines 65-74 and 226-227 bind names local
\* to their functions)
AppGlobals ==
    {"DATA_PATH", "_scheduler", "_get_sync_folder", "_get_index_status",
     "_scheduled_sync"}

\* POST /sync (lines 183-198): _run_sync is added to the background tasks
\* and the empty SyncResponse is returned
PostSync ==
    /\ api.run_sync # "scheduled"
    /\ api' = [run_sync |-> "scheduled"]
    /\ UNCHANGED <<scorer, disk, milvus_client, has_collection, rows, faults, sync, hist,
                   rq, conc, status>>

\* the background task _run_sync (lines 190-195): the name sync_folder is
\* looked up in the module namespace; an unbound name is a NameError, which
\* the except clause logs, and the task ends without a sync_folder call
RunSyncTask ==
    /\ api.run_sync = "scheduled"
    /\ api' = [run_sync |-> IF "sync_folder" \in AppGlobals THEN "called"
                            ELSE "failed"]
    /\ UNCHANGED <<scorer, disk, milvus_client, has_collection, rows, faults, sync, hist,
                   rq, conc, status>>

\* the on-demand sync as the UI uses it: files come and go, POST /sync is
\* sent and GET /status is polled for the updated counts
NextOnDemand ==
    \/ FsNext
    \/ PostSync
    \/ RunSyncTask
    \/ \E env \in StatusEnvs : GetIndexStatus(env)
    \/ StatusDone

\* the thread pool runs every task it was given
SpecOnDemand == Init /\ [][NextOnDemand]_vars /\ WF_vars(RunSyncTask)

\* the query path call by call: the code waits for each answer of the
\* embedding backend and of the reranker; no step of the code ends a wait
NextWait ==
    \/ \E query \in Queries : RetrieveCall(query)
    \/ EmbedResponds
    \/ RerankResponds
    \/ rq.pc = "returned" /\ RetrieveDone

\* the caller takes every result retrieve returns; nothing obliges the
\* backend or the reranker to answer
SpecWait == InitQuery /\ [][NextWait]_vars /\ WF_vars(rq.pc = "returned" /\ RetrieveDone)

\* _BM25Scorer(corpus) is built over two documents and score(query, i) is
\* called for each; term_scores: the scores for the query "notice" alone
NewScorer(x, y, query) ==
    /\ scorer.pc = "idle"
    /\ scorer' = [pc |-> "scored", corpus |-> <<x, y>>, query |-> query,
                  scores |-> ScoreAll(<<x, y>>, query),
                  term_scores |-> ScoreAll(<<x, y>>, "notice"),
                  raised_from |-> << >>]
    /\ UNCHANGED <<disk, milvus_client, has_collection, rows, faults, sync, hist,
                   rq, conc, status, api>>

\* x2 is x with one word that is no term of the query replaced by "notice"
OneMoreNotice(x, x2, query) ==
    /\ Len(_tokenise(x2)) = Len(_tokenise(x))
    /\ \E p \in 1..Len(_tokenise(x)) :
          /\ _tokenise(x)[p] \notin SeqToSet(_tokenise(query))
          /\ _tokenise(x2)[p] = "notice"
          /\ \A q \in 1..Len(_tokenise(x)) \ {p} : _tokenise(x2)[q] = _tokenise(x)[q]

\* the first document gets one more occurrence of "notice" at the same
\* length, and a scorer over the new corpus scores both documents again;
\* raised_from keeps the first document and its scores of before
RaiseFrequency(x2) ==
    /\ scorer.pc = "scored"
    /\ OneMoreNotice(scorer.corpus[1], x2, scorer.query)
    /\ scorer' = [pc |-> "scored", corpus |-> <<x2, scorer.corpus[2]>>,
                  query |-> scorer.query,
                  scores |-> ScoreAll(<<x2, scorer.corpus[2]>>, scorer.query),
                  term_scores |-> ScoreAll(<<x2, scorer.corpus[2]>>, "notice"),
                  raised_from |-> << [text |-> scorer.corpus[1],
                                      score |-> scorer.scores[1],
                                      term_score |-> scorer.term_scores[1]] >>]
    /\ UNCHANGED <<disk, milvus_client, has_collection, rows, faults, sync, hist,
                   rq, conc, status, api>>

\* hybrid_search returns and the scorer is dropped
ScorerDone ==
    /\ scorer.pc = "scored"
    /\ scorer' = NoScorer
    /\ UNCHANGED <<disk, milvus_client, has_collection, rows, faults, sync, hist,
                   rq, conc, status, api>>

\* the scorer over corpora of two documents
NextScorer ==
    \/ \E x, y \in ScoringTexts : \E query \in ScoringQueries : NewScorer(x, y, query)
    \/ \E x2 \in ScoringTexts : RaiseFrequency(x2)
    \/ ScorerDone

SpecScorer == Init /\ [][NextScorer]_vars

\* the sync engine over a data folder whose file names hold double quotes
\* and backslashes
NextNames ==
    \/ \E name \in OddFiles : FsAdd(name)
    \/ \E name \in OddFiles : FsRemove(name)
    \/ \E out \in {"ok", "open_fail", "query_fail"} : SyncStart(out)
    \/ sync.pc = "add" /\ \E env \in IndexEnvsOf[Head(sync.todo_add)] : SyncAdd(env)
    \/ \E gout, dout \in {"ok", "fail"} : SyncDelete(gout, dout)

SpecNames == Init /\ [][NextNames]_vars

\* index_file called file by file (POST /upload)
NextIndex ==
    \/ FsNext
    \/ \E name \in Files : \E env \in IndexEnvsOf[name] : IndexFileCall(name, env)

SpecIndex == Init /\ [][NextIndex]_vars

-----------------------------------------------------------------------------
(* Threads of the API process calling the store side by side *)

\* the functions of index.py a thread may be in: sync_folder reaches
\* _index_chunks and delete_file_vectors, the upload's index_file reaches
\* _index_chunks, retrieve reaches search_collection
ThreadOps(t) ==
    CASE t = "scheduler" -> {"_index_chunks", "delete_file_vectors"}
      [] t = "worker" -> {"_index_chunks"}
      [] t = "loop" -> {"search_collection"}

\* the store call that follows the has_collection check in each function
StoreCall(op) ==
    CASE op = "_index_chunks" -> "upsert"
      [] op = "delete_file_vectors" -> "delete"
      [] op = "search_collection" -> "search"

\* the calls that write to a collection
WriteCalls == {"create_collection", "upsert", "delete"}

\* the rows _index_chunks builds for one collection from a file
Batch(name, col, llm) ==
    LET chunks == chunk_documents(name, RawChunks(name), llm)
    IN  { RowOf(c) : c \in SeqToSet(IF col = COLLECTION_NAME THEN chunks.general
                                    ELSE chunks.definitions) }

SetThread(t, rec) == conc' = [conc EXCEPT !.thread[t] = rec]

\* a thread enters one of the functions for a collection (with a file of
\* the data folder for the writes, none for a search) and reaches the test
\* of the global in _get_client, line 71; _index_chunks returns at line 167
\* when it has no chunks
Enter(t, op, col, name) ==
    /\ conc.thread[t].pc = "idle"
    /\ op \in ThreadOps(t)
    /\ IF op = "search_collection" THEN name = "none" ELSE name \in disk
    /\ op = "_index_chunks" => \E llm \in LLMChoices(name) : Batch(name, col, llm) # {}
    /\ SetThread(t, [pc |-> IF milvus_client THEN "has_collection" ELSE "MilvusClient",
                     op |-> op, col |-> col, name |-> name])
    /\ UNCHANGED <<scorer, api, status, disk, milvus_client, has_collection, rows, faults, sync, hist, rq>>

\* _get_client, line 73: the client is constructed and stored in the global,
\* or the constructor raises
OpenClient(t, out) ==
    /\ conc.thread[t].pc = "MilvusClient"
    /\ IF out = "ok"
       THEN /\ milvus_client' = TRUE
            /\ SetThread(t, [conc.thread[t] EXCEPT !.pc = "has_collection"])
       ELSE /\ SetThread(t, ThreadIdle)
            /\ UNCHANGED milvus_client
    /\ UNCHANGED <<scorer, api, status, disk, has_collection, rows, faults, sync, hist, rq>>

\* a create_collection call for the collection has begun and not returned
Creating(col) ==
    \E t \in Threads : conc.thread[t].pc = "create_collection" /\ conc.thread[t].col = col

\* client.has_collection (line 107, line 263) returns `answer`: the store's
\* answer while a creation is under way is not fixed by the program.
\* TRUE: the function goes on to its store call; FALSE: _ensure_collection
\* goes on to create_collection, delete_file_vectors skips the collection.
HasCollection(t, answer) ==
    LET th == conc.thread[t]
    IN  /\ th.pc = "has_collection"
        /\ answer \in IF has_collection[th.col] THEN {TRUE}
                      ELSE IF Creating(th.col) THEN BOOLEAN ELSE {FALSE}
        /\ conc' = IF answer
                   THEN [conc EXCEPT !.thread[t].pc = StoreCall(th.op)]
                   ELSE IF th.op = "delete_file_vectors"
                   THEN [conc EXCEPT !.thread[t] = ThreadIdle]
                   ELSE [conc EXCEPT !.thread[t].pc = "create_collection",
                                     !.creates[th.col] = @ + 1]
        /\ UNCHANGED <<scorer, api, status, disk, milvus_client, has_collection, rows, faults, sync, hist, rq>>

\* client.create_collection returns (lines 129-133); for a collection that
\* another caller has created meanwhile the store either accepts the call or
\* raises, and the exception leaves _ensure_collection
CreateCollection(t, out) ==
    LET th == conc.thread[t]
    IN  /\ th.pc = "create_collection"
        /\ out \in IF has_collection[th.col] THEN {"ok", "exists_error"} ELSE {"ok"}
        /\ has_collection' = [has_collection EXCEPT ![th.col] = TRUE]
        /\ conc' = IF out = "ok"
                   THEN [conc EXCEPT !.thread[t].pc = StoreCall(th.op)]
                   ELSE [conc EXCEPT !.thread[t] = ThreadIdle, !.ensure_raised = TRUE]
        /\ UNCHANGED <<scorer, api, status, disk, milvus_client, rows, faults, sync, hist, rq>>

\* client.upsert returns (lines 193-199): the batch is stored, or the call
\* raises having stored a part of it
UpsertReturn(t, out, llm, part) ==
    LET th == conc.thread[t]
        batch == Batch(th.name, th.col, llm)
    IN  /\ th.pc = "upsert"
        /\ batch # {}
        /\ part \subseteq batch
        /\ IF out = "ok" /\ has_collection[th.col]
           THEN part = batch
           ELSE /\ part # batch
                /\ ~has_collection[th.col] => part = {}
        /\ rows' = [rows EXCEPT ![th.col] = Upsert(@, part)]
        /\ SetThread(t, ThreadIdle)
        /\ UNCHANGED <<scorer, api, status, disk, milvus_client, has_collection, faults, sync, hist, rq>>

\* client.delete returns (lines 265-268): the matching rows are removed, or
\* the call raises and the exception is logged
DeleteReturn(t, out) ==
    LET th == conc.thread[t]
    IN  /\ th.pc = "delete"
        /\ IF out = "ok"
           THEN rows' = [rows EXCEPT ![th.col] =
                           { r \in @ : ~FilterMatches(th.name, r) }]
           ELSE UNCHANGED rows
        /\ SetThread(t, ThreadIdle)
        /\ UNCHANGED <<scorer, api, status, disk, milvus_client, has_collection, faults, sync, hist, rq>>

\* client.search returns (lines 331-341); search_collection returns the
\* hits, or [] when the call raised
SearchReturn(t, out) ==
    /\ conc.thread[t].pc = "search"
    /\ out \in {"ok", "fail"}
    /\ SetThread(t, ThreadIdle)
    /\ UNCHANGED <<scorer, api, status, disk, milvus_client, has_collection, rows, faults, sync, hist, rq>>

\* the data folder holds one file when the threads start
InitThreads ==
    /\ disk = {"a.pdf"}
    /\ StoreInit
    /\ faults = 0
    /\ sync = SyncIdle
    /\ hist = NoHist
    /\ rq = NoQuery
    /\ conc = NoThreads
    /\ status = NoStatus
    /\ api = NoRequest
    /\ scorer = NoScorer

NextThreads ==
    \E t \in Threads :
        \/ \E op \in ThreadOps(t), col \in Collections, name \in disk \cup {"none"} :
              Enter(t, op, col, name)
        \/ \E out \in {"ok", "fail"} : OpenClient(t, out)
        \/ \E answer \in BOOLEAN : HasCollection(t, answer)
        \/ \E out \in {"ok", "exists_error"} : CreateCollection(t, out)
        \/ \E out \in {"ok", "fail"} :
              \E llm \in LLMChoices(conc.thread[t].name) :
                 \E part \in SUBSET Batch(conc.thread[t].name, conc.thread[t].col, llm) :
                    UpsertReturn(t, out, llm, part)
        \/ \E out \in {"ok", "fail"} : DeleteReturn(t, out)
        \/ \E out \in {"ok", "fail"} : SearchReturn(t, out)

SpecThreads == InitThreads /\ [][NextThreads]_vars

-----------------------------------------------------------------------------
(* Properties of sync_folder (checked under Spec) *)

ReportEmpty(report) ==
    report.added = << >> /\ report.deleted = << >> /\ report.errors = << >>

SymmetricDifference(a, b) == (a \ b) \cup (b \ a)

\* C1. Convergent sync: a sync_folder call that starts right after another
\* one has returned, with no change of the directory since that one started,
\* returns a report whose added, deleted and errors lists are empty (stated
\* for the runs in which no external call has failed).
C1_ConvergentSync ==
    (faults = 0 /\ sync.pc = "done" /\ sync.second /\ sync.stable)
        => ReportEmpty(sync.report)

\* C2. Sync detects removal: when exactly one stored source A has no file on
\* disk at the start of a sync_folder call (and the directory does not change
\* during the call), the call returns deleted = [A] and leaves no row of
\* source A in either collection (stated for the runs in which no external
\* call has failed).
C2_SyncDetectsRemoval ==
    \A A \in Files :
        (/\ faults = 0 /\ sync.pc = "done" /\ sync.stable
         /\ sync.start_sources \ sync.disk_names = {A})
        => (sync.report.deleted = <<A>> /\ A \notin StoredSources)

\* C5. A deletion failure is never dropped: a name whose deletion failed in
\* a collection is recorded in errors and not in deleted.
C5_DeleteFailureReported ==
    \A name \in sync.failed_delete :
        /\ name \in SeqToSet(sync.report.errors)
        /\ name \notin SeqToSet(sync.report.deleted)

\* C6. A name is recorded in added only when its ingestion succeeded: a file
\* whose loading, embedding or store write failed is in errors, not in added.
C6_AddedOnlyOnSuccess ==
    \A name \in sync.failed_ingest :
        /\ name \notin SeqToSet(sync.report.added)
        /\ name \in SeqToSet(sync.report.errors)

\* C7. Partial-failure semantics: once the two set differences are computed
\* the run never stops early: no exception leaves sync_folder after the
\* first name was attempted, the names attempted and the names still to do
\* always make up disk_names - indexed_names and indexed_names - disk_names,
\* and a run that has returned has attempted every one of them.
C7_PartialFailure ==
    LET diff == SymmetricDifference(sync.disk_names, sync.indexed_names)
        todo == SeqToSet(sync.todo_add) \cup SeqToSet(sync.todo_del)
    IN  /\ sync.pc = "raised" => sync.attempted = {} /\ todo = {}
        /\ sync.pc \in {"add", "delete", "done"} => sync.attempted \cup todo = diff
        /\ sync.pc = "done" => sync.attempted = diff

\* C7 witness: a run that returned after the ingestion of a.pdf failed with
\* an exception (recorded in errors) and that went on to ingest b.pdf
C7_Witness ==
    /\ sync.pc = "done"
    /\ sync.report.errors = <<"a.pdf">>
    /\ "a.pdf" \in sync.failed_ingest
    /\ sync.report.added = <<"b.pdf">>
    /\ sync.attempted = {"a.pdf", "b.pdf"}

-----------------------------------------------------------------------------
(* Properties of index_file (checked under SpecIndex) *)

\* C3. Idempotent upsert: a second index_file call on the same unchanged
\* file leaves each collection with the row ids and the row count it had
\* after the first call, and reports the same general count (stated for the
\* runs in which no external call has failed).
C3_IdempotentUpsert ==
    (faults = 0 /\ hist.calls = 2) =>
        /\ \A c \in Collections :
              /\ Ids(rows[c]) = Ids(hist.before[c])
              /\ Cardinality(rows[c]) = Cardinality(hist.before[c])
        /\ hist.summary.general_chunks = hist.first_summary.general_chunks

\* the batch was stored whole and counted, or 0 was returned and no row of
\* the batch is in the collection that was not there before
AllOrNothing(col, chunks, ret) ==
    LET batch == { RowOf(c) : c \in SeqToSet(chunks) }
    IN  \/ batch \subseteq rows[col] /\ ret = Len(chunks)
        \/ ret = 0 /\ (Ids(rows[col]) \cap Ids(batch)) \subseteq Ids(hist.before[col])

\* C4. Upsert is all-or-nothing per batch: each _index_chunks call of the
\* last index_file call that returned either stored its whole batch and
\* returned its size, or returned 0 and added no row of the batch.
C4_UpsertAllOrNothing ==
    hist.calls >= 1 =>
        /\ hist.g \notin {"open_fail", "ensure_fail"} =>
              AllOrNothing(COLLECTION_NAME, hist.general,
                           hist.summary.general_chunks)
        /\ (hist.g \notin {"open_fail", "ensure_fail"}
            /\ hist.d \notin {"open_fail", "ensure_fail"}) =>
              AllOrNothing(DEFS_COLLECTION_NAME, hist.definitions,
                           hist.summary.definition_chunks)

-----------------------------------------------------------------------------
(* Properties of retrieve and hybrid_search (checked under SpecQuery) *)

SearchFailures == {"open_fail", "ensure_fail", "embed_fail", "search_fail"}

\* C8. retrieve never propagates an exception: every call returns, the list
\* of a search path that failed (opening the store, collection bootstrap,
\* embedding or the vector search) is empty, a failed reranker raises
\* nothing, and a failure of hybrid_search itself gives the error string
\* with two empty lists.
C8_RetrieveNeverRaises ==
    /\ rq.pc # "raised"
    /\ rq.pc = "returned" =>
          /\ rq.g \in SearchFailures => rq.general_docs = << >>
          /\ rq.d \in SearchFailures => rq.definition_docs = << >>
          /\ rq.hs_raised =>
                /\ rq.context = "error"
                /\ rq.general_docs = << >> /\ rq.definition_docs = << >>
          /\ (rq.general_docs = << >> /\ rq.definition_docs = << >>)
                => rq.context \in {"error", "no_documents"}

\* C8 witness: hybrid_search raised and retrieve returned the error string
C8_Witness ==
    rq.pc = "returned" /\ rq.hs_raised /\ rq.context = "error"

\* C9. Rerank fallback: when FlashRank is not installed or raises,
\* hybrid_search raises nothing and its general list is the deduplicated
\* combined-score order cut to RERANK_TOP_K, which is not empty when there
\* is a candidate.
C9_RerankFallback ==
    (rq.pc # "idle" /\ rq.rerank \in {"not_installed", "error"}) =>
        /\ ~rq.hs_raised /\ rq.pc = "returned"
        /\ rq.general_docs = Take(rq.deduped, RERANK_TOP_K)
        /\ rq.deduped # << >> => rq.general_docs # << >>

\* C9 witness: FlashRank raised with more than RERANK_TOP_K candidates
C9_Witness ==
    /\ rq.pc = "returned" /\ rq.rerank = "error"
    /\ Len(rq.deduped) > RERANK_TOP_K
    /\ Len(rq.general_docs) = RERANK_TOP_K

\* C10. Rank fusion tie-break: the merged order is descending in the combined
\* score, and of two candidates with equal combined scores the one with the
\* smaller semantic rank comes first.
C10_StableTieBreak ==
    rq.pc = "returned" =>
        \A p, q \in 1..Len(rq.order) :
            p < q =>
                /\ rq.combined[rq.order[p]] >= rq.combined[rq.order[q]]
                /\ rq.combined[rq.order[p]] = rq.combined[rq.order[q]]
                      => rq.order[p] < rq.order[q]

\* C10 witness: two of three candidates have equal combined scores
C10_Witness ==
    /\ rq.pc = "returned" /\ Len(rq.order) = SEMANTIC_TOP_K
    /\ \E p, q \in 1..Len(rq.order) :
          p < q /\ rq.combined[rq.order[p]] = rq.combined[rq.order[q]]

\* the documents of the semantic hits in combined-score order (merged_docs)
MergedDocs == [k \in 1..Len(rq.order) |-> HitDocument(rq.semantic_hits[rq.order[k]])]

\* the positions of merged_docs whose chunk_id occurs at no earlier position
FirstOccurrences ==
    { k \in 1..Len(rq.order) :
        \A j \in 1..(k - 1) : MergedDocs[j].chunk_id # MergedDocs[k].chunk_id }

\* C11. Deduplication: the deduplicated list holds, in combined-score order,
\* exactly the candidates that are the first of their chunk_id in that order.
C11_Deduplication ==
    (rq.pc = "returned" /\ ~rq.hs_raised) =>
        /\ Len(rq.deduped) = Cardinality(FirstOccurrences)
        /\ \A i \in 1..Len(rq.deduped) :
              \E k \in FirstOccurrences :
                 /\ Cardinality({ j \in FirstOccurrences : j < k }) = i - 1
                 /\ rq.deduped[i] = MergedDocs[k]

\* C11 witness: three candidates, two of them with the same chunk_id, and
\* the repeated one is neither first nor last alone (a, b, a)
C11_Witness ==
    /\ rq.pc = "returned" /\ Len(rq.order) = 3 /\ Len(rq.deduped) = 2
    /\ MergedDocs[1].chunk_id = MergedDocs[3].chunk_id
    /\ MergedDocs[1].chunk_id # MergedDocs[2].chunk_id

\* C12. Definitions path: the definitions list of hybrid_search is the list
\* of documents of the definitions search, in the order of the search and
\* with at most DEFS_TOP_K entries (empty when that search failed), whatever
\* the general search, the keyword scores and the reranker did.
C12_DefinitionsPath ==
    (rq.pc = "returned" /\ ~rq.hs_raised) =>
        /\ rq.definition_docs =
              AsSeq([k \in 1..Len(rq.def_hits) |-> HitDocument(rq.def_hits[k])])
        /\ Len(rq.definition_docs) <= DEFS_TOP_K
        /\ rq.d # "ok" => rq.definition_docs = << >>

\* C12 witness: the general search raised and the definitions search
\* returned DEFS_TOP_K hits
C12_Witness ==
    /\ rq.pc = "returned" /\ rq.g = "ensure_fail" /\ rq.d = "ok"
    /\ Len(rq.definition_docs) = DEFS_TOP_K
    /\ rq.general_docs = << >>

\* the two chunks of the ranking example, as the search returns them
RenewalClause ==
    Document("contract renewal clause", "a.pdf", 1,
             _generate_chunk_id("a.pdf", 1, 0, "contract renewal clause"), FALSE, NoTerm)

NoticePeriod ==
    Document("termination notice period", "b.pdf", 2,
             _generate_chunk_id("b.pdf", 2, 0, "termination notice period"), FALSE, NoTerm)

\* the general collection holds exactly the two chunks, the query is
\* "termination notice" and the vector search returned the two hits, in
\* either order
RankingCase ==
    /\ rq.pc = "returned" /\ ~rq.hs_raised
    /\ rq.query = "termination notice"
    /\ rq.g = "ok"
    /\ { HitDocument(r) : r \in rows[COLLECTION_NAME] } = {RenewalClause, NoticePeriod}
    /\ Len(rq.semantic_hits) = 2
    /\ rq.semantic_hits[1] # rq.semantic_hits[2]

\* C18 as stated. End-to-end ranking: in the ranking case the general
\* results hold b.pdf's chunk, and a.pdf's chunk does not come before it.
C18_EndToEndRanking ==
    RankingCase =>
        \E i \in 1..Len(rq.general_docs) :
            /\ rq.general_docs[i] = NoticePeriod
            /\ \A j \in 1..(i - 1) : rq.general_docs[j] # RenewalClause

\* C18 amended. In the ranking case the fused order (combined score, after
\* deduplication) is b.pdf's chunk, then a.pdf's chunk, for both orders of
\* the vector search; the general results are that order when the reranker
\* is not installed or fails. (A reranker that succeeds decides the final
\* order by its own scores.)
C18_FusedRanking ==
    RankingCase =>
        /\ rq.deduped = <<NoticePeriod, RenewalClause>>
        /\ rq.rerank \in {"not_installed", "error"} =>
              rq.general_docs = <<NoticePeriod, RenewalClause>>

\* C18 witness: the vector search returned a.pdf's chunk first, the reranker
\* is not installed, and b.pdf's chunk is the first general result
C18_Witness ==
    /\ RankingCase
    /\ HitDocument(rq.semantic_hits[1]) = RenewalClause
    /\ rq.rerank = "not_installed"
    /\ rq.general_docs[1] = NoticePeriod

\* C23. Stage C scoring: with n semantic hits and a positive best keyword
\* score max_kw, the hit at 0-indexed rank i has the combined score
\* 0.6 * (n - i) / n + 0.4 * kw / max_kw (as the numerator over 10 * n * max_kw),
\* the semantic part of the top hit is 1.0 (6 * n * max_kw of the numerator),
\* and the merged list holds every hit once, by non-increasing combined score.
C23_StageCScoring ==
    (rq.pc = "returned" /\ ~rq.hs_raised /\ rq.max_kw > 0) =>
        LET n == Len(rq.combined)
        IN  /\ n = Len(rq.semantic_hits)
            /\ \A k \in 1..n :
                  rq.combined[k]
                    = 6 * (n - (k - 1)) * rq.max_kw + 4 * n * rq.keyword_scores[k]
            /\ rq.combined[1] - 4 * n * rq.keyword_scores[1] = 6 * n * rq.max_kw
            /\ Len(rq.order) = n
            /\ { rq.order[k] : k \in 1..n } = 1..n
            /\ \A k \in 1..(n - 1) :
                  rq.combined[rq.order[k]] >= rq.combined[rq.order[k + 1]]

\* C23 witness: three hits of which the second in semantic rank has the best
\* combined score
C23_Witness ==
    /\ rq.pc = "returned" /\ ~rq.hs_raised /\ rq.max_kw > 0
    /\ Len(rq.combined) = 3
    /\ rq.order[1] = 2
    /\ rq.combined[2] > rq.combined[1]

\* C24. Keyword-score normalisation: every normalised keyword score is a
\* fraction in [0, 1] computed without a division by zero; when some hit has
\* a positive BM25 score the best hit's normalised score is 1; when all BM25
\* scores are zero every normalised score is 0.
C24_Normalisation ==
    (rq.pc = "returned" /\ ~rq.hs_raised) =>
        /\ Len(rq.norm_kw) = Len(rq.semantic_hits)
        /\ \A k \in 1..Len(rq.norm_kw) :
              /\ ~rq.norm_kw[k].raised
              /\ rq.norm_kw[k].den > 0
              /\ 0 <= rq.norm_kw[k].num
              /\ rq.norm_kw[k].num <= rq.norm_kw[k].den
        /\ (\E k \in 1..Len(rq.keyword_scores) : rq.keyword_scores[k] > 0) =>
              \E k \in 1..Len(rq.norm_kw) :
                  /\ rq.norm_kw[k].num = rq.norm_kw[k].den
                  /\ \A j \in 1..Len(rq.keyword_scores) :
                        rq.keyword_scores[j] <= rq.keyword_scores[k]
        /\ (\A k \in 1..Len(rq.keyword_scores) : rq.keyword_scores[k] = 0) =>
              \A k \in 1..Len(rq.norm_kw) : rq.norm_kw[k].num = 0

\* C24 witness: two hits, neither of which holds a term of the query
C24_Witness ==
    /\ rq.pc = "returned" /\ ~rq.hs_raised
    /\ Len(rq.semantic_hits) = 2
    /\ rq.semantic_hits[1] # rq.semantic_hits[2]
    /\ rq.max_kw = 0
    /\ \A k \in 1..2 : rq.keyword_scores[k] = 0 /\ rq.norm_kw[k].num = 0

\* the definition chunks chunk_documents can produce from the files
ProducedDefinitions ==
    UNION { UNION { SeqToSet(chunk_documents(name, RawChunks(name), llm).definitions)
                    : llm \in LLMChoices(name) } : name \in Files }

\* C19. Term round trip: a definition returned by the definitions search
\* that was produced by the chunker with term = T carries term = T.
C19_TermRoundTrip ==
    rq.pc = "returned" =>
        \A k \in 1..Len(rq.definition_docs) :
            \A c \in ProducedDefinitions :
                (c.chunk_id = rq.definition_docs[k].chunk_id /\ c.term # NoTerm)
                    => rq.definition_docs[k].term = c.term

-----------------------------------------------------------------------------
(* Properties of index_file (checked under SpecIndex) *)

\* C20. A failure of opening the store or of _ensure_collection inside an
\* index_file call leaves index_file as an exception: the call does not
\* return a summary.
C20_EnsureFailureFatal ==
    (/\ hist.calls >= 1
     /\ \/ hist.g \in {"open_fail", "ensure_fail"}
        \/ hist.d \in {"open_fail", "ensure_fail"})
        => hist.raised

-----------------------------------------------------------------------------
(* Properties of the concurrent callers (checked under SpecThreads) *)

\* C13. _ensure_collection as a guarded create-if-absent: for every
\* collection create_collection is called at most once, no call of
\* _ensure_collection ends with an exception of the store's create, and no
\* thread is inside client.search for a collection whose creation has not
\* completed.
C13_GuardedCreate ==
    /\ \A c \in Collections : conc.creates[c] <= 1
    /\ ~conc.ensure_raised
    /\ \A t \in Threads :
          conc.thread[t].pc = "search" => has_collection[conc.thread[t].col]

\* C14. Writes are serialized per collection: no two threads are inside a
\* write call (create_collection, upsert, delete) for the same collection.
C14_WritesSerialized ==
    \A t1, t2 \in Threads :
        (/\ t1 # t2
         /\ conc.thread[t1].pc \in WriteCalls
         /\ conc.thread[t2].pc \in WriteCalls)
            => conc.thread[t1].col # conc.thread[t2].col

-----------------------------------------------------------------------------
(* Properties of sync_folder over odd file names (checked under SpecNames) *)

\* C15. Delete by source, for every source name (names with a double quote
\* or a backslash included): a delete_file_vectors(name) whose store calls
\* did not fail removes exactly the rows whose source is name and leaves the
\* rows of every other source unchanged.
C15_DeleteBySource ==
    [][(/\ sync.pc = "delete"
        /\ sync'.todo_del = Tail(sync.todo_del)
        /\ faults' = faults)
          => \A c \in Collections :
                rows'[c] = { r \in rows[c] : r.source # Head(sync.todo_del) }]_vars

\* C17. Sync skips what is indexed: a step of a sync run indexes only a
\* name that is absent from the indexed set, and the rows of every file that
\* is on disk and in the indexed set are the same after the step (no upsert
\* and no delete touches them).
C17_SyncSkipsIndexed ==
    [][sync.pc \in {"add", "delete"} =>
          /\ sync.pc = "add" => Head(sync.todo_add) \notin sync.indexed_names
          /\ \A c \in Collections :
                { r \in rows'[c] : r.source \in sync.disk_names \cap sync.indexed_names }
                  = { r \in rows[c] : r.source \in sync.disk_names \cap sync.indexed_names }]_vars

-----------------------------------------------------------------------------
(* Properties of get_index_status (checked under SpecStatus) *)

\* C16. get_index_status never raises, reports the count 0 for a collection
\* that does not exist, and leaves the collections as they were: none is
\* created and no row changes.
C16_StatusReadOnly ==
    status.pc # "idle" =>
        /\ status.pc = "returned"
        /\ ~status.before.has[COLLECTION_NAME] =>
              status.report.general_count = 0 /\ status.report.sources = << >>
        /\ ~status.before.has[DEFS_COLLECTION_NAME] =>
              status.report.definition_count = 0
        /\ has_collection = status.before.has
        /\ rows = status.before.rows

\* C16 witness: the status of a store without the general collection and
\* with a filled definitions collection
C16_Witness ==
    /\ status.pc = "returned"
    /\ ~status.before.has[COLLECTION_NAME]
    /\ ~has_collection[COLLECTION_NAME]
    /\ status.report.general_count = 0
    /\ status.report.definition_count > 0

-----------------------------------------------------------------------------
(* Properties of POST /sync (checked under SpecOnDemand) *)

\* C21. On-demand sync: once a POST /sync request is accepted, the
\* background task it scheduled eventually calls sync_folder.
C21_OnDemandSync ==
    (api.run_sync = "scheduled") ~> (api.run_sync = "called")

-----------------------------------------------------------------------------
(* Properties of the waits of the query path (checked under SpecWait) *)

\* C22. Bounded wait: a retrieve call that has reached an external call
\* (embed, rerank) eventually returns, whether or not the call is answered.
C22_BoundedWait ==
    (rq.pc \in {"embed_query", "embed_query_defs", "rerank"}) ~> (rq.pc = "returned")

-----------------------------------------------------------------------------
(* Properties of _BM25Scorer (checked under SpecScorer) *)

\* the first document of the scorer holds "notice", the second one does not
\* and has the same length
MonotonicityCase ==
    /\ scorer.pc = "scored"
    /\ TermFrequency(_tokenise(scorer.corpus[1]), "notice") >= 1
    /\ TermFrequency(_tokenise(scorer.corpus[2]), "notice") = 0
    /\ Len(_tokenise(scorer.corpus[1])) = Len(_tokenise(scorer.corpus[2]))

\* C25. BM25 monotonicity: for the term "notice" present in the first
\* document and absent from the second one of the same length, the second
\* document's score for the term is 0, and when the first document got one
\* more occurrence of the term (length and other query terms as before,
\* the term present before) its score is strictly greater than before.
C25_BM25Monotonicity ==
    MonotonicityCase =>
        /\ scorer.term_scores[2] = 0
        /\ scorer.term_scores[1] > 0
        /\ \A k \in 1..Len(scorer.raised_from) :
              TermFrequency(_tokenise(scorer.raised_from[k].text), "notice") >= 1 =>
                  /\ scorer.scores[1] > scorer.raised_from[k].score
                  /\ scorer.term_scores[1] > scorer.raised_from[k].term_score

\* C25 witness: "notice annex annex" became "notice notice annex" next to
\* "period annex annex", scored for the query "notice period"
C25_Witness ==
    /\ MonotonicityCase
    /\ scorer.query = "notice period"
    /\ scorer.corpus = <<"notice notice annex", "period annex annex">>
    /\ scorer.raised_from # << >>
    /\ scorer.raised_from[1].text = "notice annex annex"
    /\ scorer.scores[1] > scorer.raised_from[1].score

-----------------------------------------------------------------------------
(* Properties of the deletions and the report of sync_folder *)

\* C26. Conservative deletion (checked under SpecNames): a delete step of a
\* sync run is made for a name that the indexed-source query of the run
\* returned and that the disk enumeration of the run does not hold, and every
\* row the step removes belongs to such a name; with an empty query result
\* (a failed query) the run removes nothing.
C26_ConservativeDeletion ==
    [][sync.pc = "delete" =>
          /\ Head(sync.todo_del) \in sync.indexed_names \ sync.disk_names
          /\ \A c \in Collections :
                \A r \in rows[c] \ rows'[c] :
                    r.source \in sync.indexed_names \ sync.disk_names]_vars

\* the names of a list of the report
Names(list) == { list[k] : k \in 1..Len(list) }

C28_DeleteOnlyAbsentFiles ==
    [][sync.pc = "delete" /\ sync'.todo_del # sync.todo_del
          => Head(sync.todo_del) \notin disk]_vars

-----------------------------------------------------------------------------
(* Properties of the general list of hybrid_search *)

\* C29. Bounded, duplicate-free general list (checked under SpecQuery):
\* whatever the reranker does (success, error, not installed), the general
\* list of a returned query has at most RERANK_TOP_K entries, no two entries
\* with the same chunk_id, and every entry is a hit of the general vector
\* search of the same call.
C29_GeneralListBounded ==
    rq.pc = "returned" =>
        /\ Len(rq.general_docs) <= RERANK_TOP_K
        /\ \A i, j \in 1..Len(rq.general_docs) :
              rq.general_docs[i].chunk_id = rq.general_docs[j].chunk_id => i = j
        /\ \A i \in 1..Len(rq.general_docs) :
              \E k \in 1..Len(rq.semantic_hits) :
                  rq.general_docs[i] = HitDocument(rq.semantic_hits[k])

\* C29 witness: FlashRank answered for more than RERANK_TOP_K candidates and
\* put another candidate first than the fused order did
C29_Witness ==
    /\ rq.pc = "returned" /\ rq.rerank = "ok"
    /\ Len(rq.deduped) > RERANK_TOP_K
    /\ Len(rq.general_docs) = RERANK_TOP_K
    /\ rq.general_docs[1] # rq.deduped[1]

-----------------------------------------------------------------------------
(* Properties of the two collections *)

\* every chunk of the two lists has its row in the collection of its list
\* and no row in the other collection
StoredInOwnCollection(chunks, rs) ==
    /\ \A k \in 1..Len(chunks.general) :
          /\ RowOf(chunks.general[k]) \in rs[COLLECTION_NAME]
          /\ chunks.general[k].chunk_id \notin Ids(rs[DEFS_COLLECTION_NAME])
    /\ \A k \in 1..Len(chunks.definitions) :
          /\ RowOf(chunks.definitions[k]) \in rs[DEFS_COLLECTION_NAME]
          /\ chunks.definitions[k].chunk_id \notin Ids(rs[COLLECTION_NAME])

\* C30. Collection partition (checked under Spec, where sync_folder makes
\* its index_file and delete_file_vectors calls in every order the folder
\* allows): every row of the general collection has is_definition = FALSE
\* and every row of the definitions collection has is_definition = TRUE; no
\* chunk id is stored in both collections; and when index_file has stored a
\* file without a failure, every chunk it produced (for the answer the
\* extractor gave) is stored in the collection of its list and not in the
\* other one.
C30_CollectionPartition ==
    /\ [](/\ \A r \in rows[COLLECTION_NAME] : ~r.is_definition
          /\ \A r \in rows[DEFS_COLLECTION_NAME] : r.is_definition
          /\ Ids(rows[COLLECTION_NAME]) \cap Ids(rows[DEFS_COLLECTION_NAME]) = {})
    /\ [][(/\ sync.pc = "add"
           /\ sync'.report.added # sync.report.added
           /\ faults' = faults) =>
            \E llm \in LLMChoices(Head(sync.todo_add)) :
                StoredInOwnCollection(
                    chunk_documents(Head(sync.todo_add),
                                    RawChunks(Head(sync.todo_add)), llm),
                    rows')]_vars

\* C30 witness: a sync run stored files without a failure; the general
\* collection holds a chunk, the definitions collection holds an extracted
\* definition and the raw chunk of a file for which nothing was extracted
C30_Witness ==
    /\ sync.pc = "done" /\ faults = 0
    /\ Len(sync.report.added) >= 2
    /\ rows[COLLECTION_NAME] # {}
    /\ \E r \in rows[DEFS_COLLECTION_NAME] : r.text = RawChunks(r.source)[1].text
    /\ \E r \in rows[DEFS_COLLECTION_NAME] :
          \A k \in 1..Len(RawChunks(r.source)) : r.text # RawChunks(r.source)[k].text

====
